---- MODULE Spec2Model ----
(***************************************************************************)
(* Asynchronous download orchestration of app.py: the POST /download       *)
(* handler, the background download_thread it starts, the shared           *)
(* download_progress registry, the polling and file handlers, and the      *)
(* rows of models.py the thread commits.                                    *)
(*                                                                         *)
(* Python's None is the string "None"; a missing dict key is a key that is *)
(* not in the DOMAIN of the record.  Every statement of download_thread    *)
(* that writes the registry or calls the backend or the database is one    *)
(* step, named after its line in app.py, so that other threads and the     *)
(* request handlers interleave between any two of them.                    *)
(***************************************************************************)
EXTENDS Naturals, Integers, Sequences, FiniteSets, TLC

\* ---------------------------------------------------------------- bounds
MaxRequests == 2
MaxClock == 1
MaxEvents == 2
MaxFileSize == 2
MaxFormats == 3
MaxStreams == 2
MaxAccess == 3

None == "None"

\* ------------------------------------------------------- request inputs
YoutubeUrl == "https://www.youtube.com/watch?v=dQw4w9WgXcQ"
InstagramUrl == "https://www.instagram.com/reel/Cx1aB2c"
FacebookUrl == "https://fb.watch/abc123"
OtherUrl == "https://vimeo.com/12345"

\* the requests tried: download_thread treats 'instagram' and 'facebook'
\* alike (its else branch), so one of the two is submitted
Urls == {"", YoutubeUrl, InstagramUrl, OtherUrl}

\* itag 140 is an audio-only YouTube stream, format "hd" a video format
Itags == {None, "140"}
FormatIds == {None, "hd"}

\* str(e) of the exception a backend download raises
ErrMsgs == {"", "HTTP Error 403: Forbidden"}

\* str(e) of any other exception
ErrMsg == "connection reset"

is_valid_youtube_url(url) == url = YoutubeUrl

is_valid_instagram_url(url) == url = InstagramUrl

is_valid_facebook_url(url) == url = FacebookUrl

\* a classifier that takes every non-YouTube URL for an Instagram one
detect_platform_any(url) ==
    IF is_valid_youtube_url(url) THEN "youtube" ELSE "instagram"

detect_platform(url) ==
    IF is_valid_youtube_url(url) THEN "youtube"
    ELSE IF is_valid_instagram_url(url) THEN "instagram"
    ELSE IF is_valid_facebook_url(url) THEN "facebook"
    ELSE None

\* ------------------------------------------------------------- registry
\* download_progress[download_id] = {'progress': 0, 'status': 'starting'}
NewProgressRecord == [progress |-> 0, status |-> "starting"]

RegisterSkipped(dp, id) == dp

\* a registration that forgets every other entry
RegisterAlone(dp, id) == [k \in {id} |-> NewProgressRecord]

Register(dp, id) ==
    [k \in DOMAIN dp \cup {id} |-> IF k = id THEN NewProgressRecord ELSE dp[k]]

\* download_progress[id][key] = val
SetItem(dp, id, key, val) ==
    [dp EXCEPT ![id] = [k \in DOMAIN @ \cup {key} |-> IF k = key THEN val ELSE @[k]]]

\* download_id = f"download_{int(time.time())}"
MakeDownloadId(clock) == clock

\* a lookup that answers a fresh record for an unknown id
ProgressInfoDefaulted(dp, id) ==
    IF id \in DOMAIN dp THEN dp[id] ELSE NewProgressRecord

\* download_progress.get(download_id, {'status': 'not_found'})
ProgressInfo(dp, id) ==
    IF id \in DOMAIN dp THEN dp[id] ELSE [status |-> "not_found"]

\* progress_info.get(key)
Get(info, key) == IF key \in DOMAIN info THEN info[key] ELSE None

\* ------------------------------------------------------ backend values
\* progress = int((bytes_downloaded / total_size) * 100)
Percent(downloaded, total) == (downloaded * 100) \div total

\* the dictionaries yt-dlp hands to progress_hook; total_bytes 0 and
\* _percent_str "" stand for an absent key
HookEvents ==
    { [status |-> "downloading", total_bytes |-> 4, downloaded_bytes |-> 3, percent_str |-> ""],
      [status |-> "downloading", total_bytes |-> 0, downloaded_bytes |-> 0, percent_str |-> " 25.0%"],
      [status |-> "finished", total_bytes |-> 4, downloaded_bytes |-> 4, percent_str |-> ""] }

\* int(float(d['_percent_str'].strip(' %'))): -1 when float() raises
ParsePercent(s) == IF s = " 25.0%" THEN 25 ELSE -1

SocialFile == "/tmp/tmpa1/clip.mp4"
HookFilename == "/tmp/tmpa1/clip.mp4"
YoutubeFilename == "Title_720p.mp4"
YoutubeFilepath == "/tmp/Title_720p.mp4"

\* os.path.basename(filepath)
Basename(path) == IF path = SocialFile THEN "clip.mp4" ELSE path

\* ------------------------------------------------------------ database
NoRecord ==
    [exists |-> FALSE, id |-> 0, status |-> None, error_message |-> None,
     completed_at |-> FALSE, download_type |-> None, persistent |-> FALSE]

NoStatsRow == [exists |-> FALSE, total |-> 0, video |-> 0, audio |-> 0]
ZeroStatsRow == [exists |-> TRUE, total |-> 0, video |-> 0, audio |-> 0]
NoStatsObj == [loaded |-> FALSE, isNew |-> FALSE, total |-> 0, video |-> 0, audio |-> 0]

VARIABLES
    now,                \* int(time.time()) when the clock was last read
    download_progress,  \* the registry: download_id -> dict
    threads,            \* one download_thread per accepted request, in order
    history,            \* committed download_history rows, by id
    stats,              \* committed download_stats row of today
    popular,            \* committed popular_videos.download_count, 0 = no row
    response,           \* the HTTP response this step sent, if it was a handler
    resolved,           \* the latest metadata resolution: raw formats and options
    video_info          \* the video_info row of the YouTube video

vars == <<now, download_progress, threads, history, stats, popular, response, resolved, video_info>>

\* no metadata has been resolved; fetched tells whether the request asked
\* the backend (YouTube(url), ydl.extract_info)
NoResolution ==
    [platform |-> None, raw |-> <<>>, quality_options |-> <<>>, error |-> None,
     fetched |-> FALSE]

\* no VideoInfo row for the video; available_qualities is a JSON text
NoVideoInfo == [exists |-> FALSE, available_qualities |-> <<>>, access_count |-> 0]

\* arg is the download_id of the URL path, None for POST /download
NoResponse == [handler |-> "none", arg |-> None, code |-> 0, body |-> <<>>]

Init ==
    /\ now = 0
    /\ download_progress = <<>>
    /\ threads = <<>>
    /\ history = <<>>
    /\ stats \in {NoStatsRow, ZeroStatsRow}
    /\ popular = 0
    /\ response = NoResponse
    /\ resolved = NoResolution
    /\ video_info = NoVideoInfo

\* ------------------------------------------------------ request handlers
\* the closure and the locals of download_thread; downloaded remembers
\* how the backend download went: "no" (not called), "yes", "failed"
\* a thread the handler has waited for: it has returned already
JoinedThread(platform, selector, id) ==
    [pc |-> "done", platform |-> platform, selector |-> None,
     download_id |-> id, e |-> None, rec |-> NoRecord, events |-> 0,
     remaining |-> 0, filepath |-> None,
     popLoaded |-> 0, popPending |-> FALSE, statsObj |-> NoStatsObj,
     downloaded |-> "no"]

NewThread(platform, selector, id) ==
    [pc |-> "L521", platform |-> platform, selector |-> selector,
     download_id |-> id, e |-> None, rec |-> NoRecord, events |-> 0,
     remaining |-> 0, filepath |-> None,
     popLoaded |-> 0, popPending |-> FALSE, statsObj |-> NoStatsObj,
     downloaded |-> "no"]

\* POST /download.  elapsed is the time since the clock was last read;
\* started = FALSE when thread.start() raises
download_video(url, itag, format_id, elapsed, started) ==
    IF url = "" \/ (itag = None /\ format_id = None)
    THEN /\ response' = [handler |-> "download_video", arg |-> None, code |-> 400,
                         body |-> [error |-> "Missing URL or quality selection"]]
         /\ UNCHANGED <<now, download_progress, threads, history, stats, popular, resolved, video_info>>
    ELSE IF detect_platform(url) = None
    THEN /\ response' = [handler |-> "download_video", arg |-> None, code |-> 400,
                         body |-> [error |-> "Invalid video URL"]]
         /\ UNCHANGED <<now, download_progress, threads, history, stats, popular, resolved, video_info>>
    ELSE LET platform == detect_platform(url)
             download_id == MakeDownloadId(now + elapsed)
             selector == IF platform = "youtube" THEN itag ELSE format_id
         IN  /\ Len(threads) < MaxRequests
             /\ now' = now + elapsed
             /\ download_progress' = Register(download_progress, download_id)
             /\ IF started
                THEN /\ threads' = Append(threads, NewThread(platform, selector, download_id))
                     /\ response' = [handler |-> "download_video", arg |-> None, code |-> 200,
                                     body |-> [download_id |-> download_id]]
                ELSE /\ threads' = threads
                     /\ response' = [handler |-> "download_video", arg |-> None, code |-> 500,
                                     body |-> [error |-> "Error starting download"]]
             /\ UNCHANGED <<history, stats, popular, resolved, video_info>>

\* GET /download_progress/<download_id>
get_download_progress(download_id) ==
    /\ response' = [handler |-> "get_download_progress", arg |-> download_id, code |-> 200,
                    body |-> ProgressInfo(download_progress, download_id)]
    /\ UNCHANGED <<now, download_progress, threads, history, stats, popular, resolved, video_info>>

\* line 720 without its status test: only an unknown id is refused
NotCompletedUnknownOnly(dp, id) == id \notin DOMAIN dp

\* line 720: not progress_info or progress_info.get('status') != 'completed'
NotCompleted(dp, id) ==
    id \notin DOMAIN dp \/ Get(dp[id], "status") # "completed"

\* GET /download_file/<download_id>; on_disk = os.path.exists(filepath),
\* sent = FALSE when send_file raises
download_file(download_id, on_disk, sent) ==
    LET progress_info == ProgressInfo(download_progress, download_id)
        filepath == Get(progress_info, "filepath")
        filename == Get(progress_info, "filename")
    IN  /\ response' =
              IF NotCompleted(download_progress, download_id)
              THEN [handler |-> "download_file", arg |-> download_id, code |-> 404,
                    body |-> [error |-> "Download not completed or not found"]]
              ELSE IF filepath = None \/ ~on_disk
              THEN [handler |-> "download_file", arg |-> download_id, code |-> 404,
                    body |-> [error |-> "File not found"]]
              ELSE IF ~sent
              THEN [handler |-> "download_file", arg |-> download_id, code |-> 500,
                    body |-> [error |-> "Error serving file"]]
              ELSE [handler |-> "download_file", arg |-> download_id, code |-> 200,
                    body |-> [file |-> filepath, download_name |-> filename]]
        /\ UNCHANGED <<now, download_progress, threads, history, stats, popular, resolved, video_info>>

\* ------------------------------------------------------ download_thread
\* Statements that touch only the thread's own locals (a backend call, a
\* branch) are folded into the step of the next statement that writes the
\* registry or reaches the database.
Th(t) == threads[t]

Goto(r, pc) == [r EXCEPT !.pc = pc]

\* except Exception as e: control moves to the handler at line 680
Raise(r, msg) == [r EXCEPT !.pc = "L682", !.e = msg]

\* the thread function returns: its locals are gone
Finish(r) ==
    [NewThread(r.platform, None, r.download_id) EXCEPT
        !.pc = "done", !.downloaded = r.downloaded,
        !.rec = [NoRecord EXCEPT !.exists = r.rec.exists, !.id = r.rec.id,
                                 !.persistent = r.rec.persistent]]

\* an error string of the registry: a fixed prefix and the str() of its cause
ErrText(prefix, detail) == <<prefix, detail>>

\* a failed flush or commit rolls the session back: pending inserts are
\* dropped and a persistent object shows its committed row again
Rollback(r, rows) ==
    LET rec == r.rec
        row == rows[rec.id]
    IN  [r EXCEPT !.popPending = FALSE,
                  !.statsObj = NoStatsObj,
                  !.rec = IF rec.persistent
                          THEN [rec EXCEPT !.status = row.status,
                                           !.error_message = row.error_message,
                                           !.completed_at = row.completed_at]
                          ELSE rec]

\* the row a DownloadHistory object is written as; the column default
\* 'initiated' applies when no status was passed to the constructor
RowOf(rec) ==
    [status |-> IF rec.status = None THEN "initiated" ELSE rec.status,
     error_message |-> rec.error_message,
     completed_at |-> rec.completed_at,
     download_type |-> rec.download_type]

\* the unique constraints on popular_videos.video_id and download_stats.date
CanCommit(r) ==
    /\ ~(r.popPending /\ popular # 0)
    /\ ~(r.statsObj.loaded /\ r.statsObj.isNew /\ stats.exists)

\* a commit that writes nothing
CommitNothing(r) == UNCHANGED <<history, popular, stats>>

\* db.session.commit(): everything the thread's session holds is written;
\* a new DownloadStats is inserted whole, a loaded one is updated in the
\* columns that were assigned (lines 665-669)
CommitSession(r) ==
    /\ history' = IF r.rec.persistent
                  THEN [history EXCEPT ![r.rec.id] = RowOf(r.rec)]
                  ELSE history
    /\ popular' = IF r.popPending THEN 1 ELSE popular
    /\ stats' = IF ~r.statsObj.loaded THEN stats
                ELSE IF r.statsObj.isNew
                THEN [exists |-> TRUE, total |-> r.statsObj.total,
                      video |-> r.statsObj.video, audio |-> r.statsObj.audio]
                ELSE IF r.rec.download_type = "video"
                THEN [stats EXCEPT !.total = r.statsObj.total,
                                   !.video = r.statsObj.video]
                ELSE [stats EXCEPT !.total = r.statsObj.total,
                                   !.audio = r.statsObj.audio]

Committed(r) == [r EXCEPT !.popPending = FALSE, !.statsObj = NoStatsObj]

\* a step of thread t that leaves it as r and changes nothing shared
Local(t, r) ==
    /\ threads' = [threads EXCEPT ![t] = r]
    /\ response' = NoResponse
    /\ UNCHANGED <<now, download_progress, history, stats, popular, resolved, video_info>>

\* a step of thread t that assigns one key of its registry entry and
\* leaves the thread as r
Write(t, key, val, r) ==
    /\ download_progress' = SetItem(download_progress, Th(t).download_id, key, val)
    /\ threads' = [threads EXCEPT ![t] = r]
    /\ response' = NoResponse
    /\ UNCHANGED <<now, history, stats, popular, resolved, video_info>>

\* lines 521-600: the backend is asked for the video and the selected
\* format, and the DownloadHistory object is built
L521(t) ==
    /\ Th(t).pc = "L521"
    /\ IF Th(t).platform = "youtube"
       THEN \/ Local(t, [Th(t) EXCEPT !.pc = "L526", !.e = ErrMsg])
            \/ Local(t, Raise(Th(t), ErrMsg))
            \/ Local(t, [Th(t) EXCEPT !.pc = "L534"])
            \/ /\ Th(t).selector # None
               /\ Local(t, [Th(t) EXCEPT !.pc = "L601",
                               !.rec = [NoRecord EXCEPT !.exists = TRUE,
                                                        !.download_type = "audio"]])
       ELSE \/ Local(t, [Th(t) EXCEPT !.pc = "L565", !.e = ErrMsg])
            \/ Local(t, [Th(t) EXCEPT !.pc = "L577"])
            \/ /\ Th(t).selector # None
               /\ Local(t, [Th(t) EXCEPT !.pc = "L601",
                               !.rec = [NoRecord EXCEPT !.exists = TRUE,
                                                        !.status = "downloading",
                                                        !.download_type = "video"]])

L526(t) == Th(t).pc = "L526" /\ Write(t, "status", "error", Goto(Th(t), "L527"))

L527(t) ==
    /\ Th(t).pc = "L527"
    /\ Write(t, "error", ErrText("YouTube access error: ", Th(t).e), Finish(Th(t)))

L534(t) == Th(t).pc = "L534" /\ Write(t, "status", "error", Goto(Th(t), "L535"))

L535(t) ==
    /\ Th(t).pc = "L535"
    /\ Write(t, "error", ErrText("Selected quality not available", ""), Finish(Th(t)))

L565(t) == Th(t).pc = "L565" /\ Write(t, "status", "error", Goto(Th(t), "L566"))

L566(t) ==
    /\ Th(t).pc = "L566"
    /\ Write(t, "error", ErrText("Could not extract video information: ", Th(t).e),
             Finish(Th(t)))

L577(t) == Th(t).pc = "L577" /\ Write(t, "status", "error", Goto(Th(t), "L578"))

L578(t) ==
    /\ Th(t).pc = "L578"
    /\ Write(t, "error", ErrText("Selected quality not available", ""), Finish(Th(t)))

\* lines 601-602: db.session.add(download_record); db.session.commit()
L601(t) ==
    /\ Th(t).pc = "L601"
    /\ \/ LET id == Len(history) + 1
              rec == [Th(t).rec EXCEPT !.persistent = TRUE, !.id = id,
                                       !.status = RowOf(Th(t).rec).status]
          IN  /\ history' = Append(history, RowOf(rec))
              /\ threads' = [threads EXCEPT ![t] = [@ EXCEPT !.pc = "L604", !.rec = rec]]
              /\ response' = NoResponse
              /\ UNCHANGED <<now, download_progress, stats, popular, resolved, video_info>>
       \/ Local(t, Raise(Th(t), ErrMsg))

L604(t) ==
    /\ Th(t).pc = "L604"
    /\ Write(t, "record_id", Th(t).rec.id,
             Goto(Th(t), IF Th(t).platform = "youtube" THEN "L614" ELSE "L474"))

L614(t) == Th(t).pc = "L614" /\ Write(t, "status", "downloading", Goto(Th(t), "L615"))

L615(t) ==
    /\ Th(t).pc = "L615"
    /\ Write(t, "filename", YoutubeFilename,
             [Th(t) EXCEPT !.pc = "L625", !.remaining = MaxFileSize])

\* lines 618-622: progress_callback(stream, chunk, bytes_remaining)
progress_callback(dp, id, total_size, bytes_remaining) ==
    SetItem(dp, id, "progress", Percent(total_size - bytes_remaining, total_size))

\* lines 625-626: stream.download delivers the file chunk by chunk, calling
\* the callback after each, then returns and the filepath is recorded
L625(t) ==
    /\ Th(t).pc = "L625"
    /\ \/ \E chunk \in 1..Th(t).remaining :
            /\ download_progress' =
                   progress_callback(download_progress, Th(t).download_id,
                                     MaxFileSize, Th(t).remaining - chunk)
            /\ threads' = [threads EXCEPT ![t] = [@ EXCEPT !.remaining = @ - chunk]]
            /\ response' = NoResponse
            /\ UNCHANGED <<now, history, stats, popular, resolved, video_info>>
       \/ /\ Th(t).remaining = 0
          /\ Write(t, "filepath", YoutubeFilepath,
                   [Th(t) EXCEPT !.pc = "L630", !.downloaded = "yes"])
       \/ \E m \in ErrMsgs : Local(t, Raise([Th(t) EXCEPT !.downloaded = "failed"], m))

\* lines 629-640: PopularVideo.query...first(), then increment or add
L630(t) ==
    /\ Th(t).pc = "L630"
    /\ \/ Local(t, Raise(Rollback(Th(t), history), ErrMsg))
       \/ popular # 0 /\ Local(t, [Th(t) EXCEPT !.pc = "L632", !.popLoaded = popular])
       \/ popular = 0 /\ Local(t, [Th(t) EXCEPT !.pc = "L655", !.popPending = TRUE])

\* line 632: popular_video.increment_downloads() commits download_count + 1
L632(t) ==
    /\ Th(t).pc = "L632"
    /\ \/ /\ popular' = Th(t).popLoaded + 1
          /\ threads' = [threads EXCEPT ![t] = [@ EXCEPT !.pc = "L655", !.popLoaded = 0]]
          /\ response' = NoResponse
          /\ UNCHANGED <<now, download_progress, history, stats, resolved, video_info>>
       \/ Local(t, Raise(Rollback([Th(t) EXCEPT !.popLoaded = 0], history), ErrMsg))

TypeErrorNone == "unsupported operand type(s) for +=: 'NoneType' and 'int'"

\* lines 655-671: the record is marked completed and today's DownloadStats
\* is fetched or created, then incremented.  A new DownloadStats has
\* total_downloads None until it is inserted, so += 1 raises TypeError.
\* The query flushes the session first, which inserts a pending
\* PopularVideo and fails if another thread has committed that row.
L655(t) ==
    /\ Th(t).pc = "L655"
    /\ LET r == [Th(t) EXCEPT !.rec.status = "completed", !.rec.completed_at = TRUE]
           isVideo == r.rec.download_type = "video"
       IN  \/ Local(t, Raise(Rollback(r, history), ErrMsg))
           \/ /\ ~(r.popPending /\ popular # 0)
              /\ stats.exists
              /\ Local(t, [r EXCEPT !.pc = "L673",
                              !.statsObj = [loaded |-> TRUE, isNew |-> FALSE,
                                            total |-> stats.total + 1,
                                            video |-> stats.video + (IF isVideo THEN 1 ELSE 0),
                                            audio |-> stats.audio + (IF isVideo THEN 0 ELSE 1)]])
           \/ /\ ~(r.popPending /\ popular # 0)
              /\ ~stats.exists
              /\ Local(t, Raise([r EXCEPT !.statsObj = [NoStatsObj EXCEPT !.loaded = TRUE,
                                                                           !.isNew = TRUE]],
                                TypeErrorNone))

\* line 673: db.session.commit()
L673(t) ==
    /\ Th(t).pc = "L673"
    /\ \/ /\ CanCommit(Th(t))
          /\ CommitSession(Th(t))
          /\ threads' = [threads EXCEPT ![t] = Goto(Committed(@), "L675")]
          /\ response' = NoResponse
          /\ UNCHANGED <<now, download_progress, resolved, video_info>>
       \/ Local(t, Raise(Rollback(Th(t), history), ErrMsg))

L675(t) == Th(t).pc = "L675" /\ Write(t, "status", "completed", Goto(Th(t), "L676"))

\* lines 676-678: progress 100, then the log line reads
\* download_record.video_title, which the commit expired, so the session
\* reloads the row and may raise
L676(t) ==
    /\ Th(t).pc = "L676"
    /\ \/ Write(t, "progress", 100, Finish(Th(t)))
       \/ Write(t, "progress", 100, Raise(Th(t), ErrMsg))

\* line 682, the first statement of the exception handler
ExceptStatusSkipped(dp, id) == dp

ExceptStatus(dp, id) == SetItem(dp, id, "status", "error")

L682(t) ==
    /\ Th(t).pc = "L682"
    /\ download_progress' = ExceptStatus(download_progress, Th(t).download_id)
    /\ threads' = [threads EXCEPT ![t] = Goto(@, "L683")]
    /\ response' = NoResponse
    /\ UNCHANGED <<now, history, stats, popular, resolved, video_info>>

\* lines 683-686: the error text; without a download_record the thread ends
L683(t) ==
    /\ Th(t).pc = "L683"
    /\ Write(t, "error", ErrText("", Th(t).e),
             IF Th(t).rec.exists THEN Goto(Th(t), "L688") ELSE Finish(Th(t)))

\* lines 687-693: the record is marked failed, best effort
L688(t) ==
    /\ Th(t).pc = "L688"
    /\ LET r == [Th(t) EXCEPT !.rec.status = "failed", !.rec.error_message = Th(t).e]
       IN  \/ /\ CanCommit(r)
              /\ CommitSession(r)
              /\ threads' = [threads EXCEPT ![t] = Finish(r)]
              /\ response' = NoResponse
              /\ UNCHANGED <<now, download_progress, resolved, video_info>>
           \/ Local(t, Finish(r))

\* ------------------------------------------ download_social_media_video
\* lines 644-648: filepath, error = download_social_media_video(...); if error:
Returned(r, filepath, error) ==
    LET r2 == [r EXCEPT !.e = error, !.filepath = filepath, !.events = 0,
                        !.downloaded = IF error = None THEN "yes" ELSE "failed"]
    IN  IF error # None /\ error # ""
        THEN Goto(r2, "L646")
        ELSE Goto(r2, "L650")

\* lines 435-474: the temporary directory, then status 'downloading'
L474(t) ==
    /\ Th(t).pc = "L474"
    /\ \/ \E m \in ErrMsgs : Local(t, Returned(Th(t), None, m))
       \/ Write(t, "status", "downloading", Goto(Th(t), "L475"))

\* lines 447-469: progress_hook(d) up to its first assignment
progress_hook(t, d) ==
    LET r == [Th(t) EXCEPT !.events = @ + 1]
    IN  IF d.status = "downloading"
        THEN IF d.total_bytes # 0
             THEN Write(t, "progress", Percent(d.downloaded_bytes, d.total_bytes),
                        Goto(r, "L454"))
             ELSE IF d.percent_str # "" /\ ParsePercent(d.percent_str) >= 0
             THEN Write(t, "progress", ParsePercent(d.percent_str), r)
             ELSE Local(t, r)
        ELSE IF d.status = "finished"
        THEN Write(t, "progress", 100, Goto(r, "L468"))
        ELSE Local(t, r)

\* lines 475-487: ydl.download([url]) calls the hook, then returns or raises
L475(t) ==
    /\ Th(t).pc = "L475"
    /\ \/ /\ Th(t).events < MaxEvents
          /\ \E d \in HookEvents : progress_hook(t, d)
       \/ \E m \in ErrMsgs : Local(t, Returned(Th(t), None, m))
       \/ Local(t, Returned(Th(t), SocialFile, None))
       \/ Local(t, Returned(Th(t), None, "No file was downloaded"))

L454(t) == Th(t).pc = "L454" /\ Write(t, "status", "downloading", Goto(Th(t), "L475"))

L468(t) == Th(t).pc = "L468" /\ Write(t, "status", "finished", Goto(Th(t), "L469"))

L469(t) == Th(t).pc = "L469" /\ Write(t, "filename", HookFilename, Goto(Th(t), "L475"))

L646(t) == Th(t).pc = "L646" /\ Write(t, "status", "error", Goto(Th(t), "L647"))

L647(t) == Th(t).pc = "L647" /\ Write(t, "error", ErrText("", Th(t).e), Finish(Th(t)))

BasenameTypeError == "expected str, bytes or os.PathLike object, not NoneType"

\* lines 650-651: the filepath is recorded; os.path.basename(None) raises
L650(t) ==
    /\ Th(t).pc = "L650"
    /\ Write(t, "filepath", Th(t).filepath,
             IF Th(t).filepath = None
             THEN Raise(Th(t), BasenameTypeError)
             ELSE Goto(Th(t), "L652"))

L652(t) ==
    /\ Th(t).pc = "L652"
    /\ Write(t, "filename", Basename(Th(t).filepath), [Th(t) EXCEPT !.pc = "L655", !.filepath = None])

download_thread(t) ==
    \/ L521(t) \/ L526(t) \/ L527(t) \/ L534(t) \/ L535(t)
    \/ L565(t) \/ L566(t) \/ L577(t) \/ L578(t)
    \/ L601(t) \/ L604(t) \/ L614(t) \/ L615(t) \/ L625(t)
    \/ L630(t) \/ L632(t) \/ L655(t) \/ L673(t) \/ L675(t) \/ L676(t)
    \/ L682(t) \/ L683(t) \/ L688(t)
    \/ L474(t) \/ L475(t) \/ L454(t) \/ L468(t) \/ L469(t)
    \/ L646(t) \/ L647(t) \/ L650(t) \/ L652(t)

\* ----------------------------------------------------- metadata resolver
\* A quality label is the text str(number) + text: "720p", "720p (30fps)",
\* "360p (MP4)", "Audio (128kbps)"; "Audio Only" has no number (0).
Label(number, text) == [number |-> number, text |-> text]

\* 'p' in x['quality'], for the labels get_social_media_info builds
HasP(quality) == quality.text \in {"p", "p (30fps)"}

\* int(x['quality'].split('p')[0]) if 'p' in x['quality'] else 0: the text
\* before the first 'p' of "720p (30fps)" is "720"
SortKey(quality) == IF HasP(quality) THEN quality.number ELSE 0

\* the resolutions a backend offers; 0 stands for None
Heights == {360, 720}

\* one entry of info['formats'] apart from its format_id: a video format
\* with or without height and fps, or an audio-only format
FormatKinds ==
    {[height |-> h, fps |-> 0, vcodec |-> "avc1"] : h \in {0} \cup Heights}
        \cup {[height |-> 720, fps |-> 30, vcodec |-> "avc1"],
              [height |-> 0, fps |-> 0, vcodec |-> "none"]}

\* info['formats']; the format_id of an entry is its position
RawFormatLists ==
    UNION {{[i \in 1..n |-> [format_id |-> i, height |-> k[i].height,
                             fps |-> k[i].fps, vcodec |-> k[i].vcodec]] :
              k \in [1..n -> FormatKinds]} : n \in 0..MaxFormats}

\* a membership test that finds nothing
SeenNever(value, seen) == FALSE

\* height in seen_heights, stream.resolution in seen_resolutions
Seen(value, seen) == value \in seen

\* lines 146-163: one option per height, in the order of video_formats
RECURSIVE AddVideoQualities(_, _, _)
AddVideoQualities(video_formats, seen_heights, platform) ==
    IF video_formats = <<>> THEN <<>>
    ELSE LET fmt == Head(video_formats)
         IN  IF fmt.height # 0 /\ ~Seen(fmt.height, seen_heights)
             THEN <<[format_id |-> fmt.format_id,
                     quality |-> Label(fmt.height,
                                       IF fmt.fps # 0 THEN "p (30fps)" ELSE "p"),
                     type |-> "video", platform |-> platform]>>
                  \o AddVideoQualities(Tail(video_formats),
                                       seen_heights \cup {fmt.height}, platform)
             ELSE AddVideoQualities(Tail(video_formats), seen_heights, platform)

\* list.sort(key=..., reverse=True): descending, equal keys keep their order
RECURSIVE SortReverse(_)
SortReverse(options) ==
    IF options = <<>> THEN <<>>
    ELSE LET n == Len(options)
             x == options[n]
             rest == SortReverse(SubSeq(options, 1, n - 1))
             pos == Cardinality({i \in 1..(n - 1) :
                                   SortKey(rest[i].quality) >= SortKey(x.quality)})
         IN  SubSeq(rest, 1, pos) \o <<x>> \o SubSeq(rest, pos + 1, n - 1)

\* lines 139-177: quality_options of get_social_media_info
SocialQualityOptions(formats, platform) ==
    LET video_formats == SelectSeq(formats, LAMBDA f : f.vcodec # "none")
        audio_formats == SelectSeq(formats, LAMBDA f : f.vcodec = "none")
        videos == AddVideoQualities(video_formats, {}, platform)
        audio == IF audio_formats = <<>> THEN <<>>
                 ELSE <<[format_id |-> audio_formats[1].format_id,
                         quality |-> Label(0, "Audio Only"),
                         type |-> "audio", platform |-> platform]>>
    IN  SortReverse(videos \o audio)

\* yt.streams.filter(...).order_by('resolution').desc(): streams in descending
\* resolution, several streams of one resolution allowed; itags are
\* first + position
StreamLists(resolutions, first) ==
    UNION {{[i \in 1..n |-> [itag |-> first + i, resolution |-> r[i]]] :
              r \in {q \in [1..n -> resolutions] :
                        \A i, j \in 1..n : i < j => q[i] >= q[j]}} :
           n \in 0..MaxStreams}

\* yt.streams.filter(only_audio=True): abr 0 stands for None
AudioStreamLists ==
    {<<>>, <<[itag |-> 140, abr |-> 128]>>, <<[itag |-> 139, abr |-> 0]>>}

\* lines 251-278: one option per resolution over both stream lists
RECURSIVE AddStreamQualities(_, _, _, _)
AddStreamQualities(streams, seen_resolutions, text, type) ==
    IF streams = <<>> THEN <<>>
    ELSE LET stream == Head(streams)
         IN  IF stream.resolution # 0 /\ ~Seen(stream.resolution, seen_resolutions)
             THEN <<[itag |-> stream.itag,
                     quality |-> Label(stream.resolution, text),
                     type |-> type]>>
                  \o AddStreamQualities(Tail(streams),
                                        seen_resolutions \cup {stream.resolution},
                                        text, type)
             ELSE AddStreamQualities(Tail(streams), seen_resolutions, text, type)

\* lines 246-310: quality_options of get_video_info on a cache miss
YoutubeQualityOptions(progressive_streams, adaptive_video_streams, audio_streams) ==
    LET progressive == AddStreamQualities(progressive_streams, {},
                                          "p (MP4)", "video")
        seen == {progressive[i].quality.number : i \in 1..Len(progressive)}
        adaptive == AddStreamQualities(adaptive_video_streams, seen,
                                       "p (High Quality)", "video_adaptive")
        with_abr == SelectSeq(audio_streams, LAMBDA a : a.abr # 0)
        audio_qualities ==
            [i \in 1..Len(with_abr) |->
                [itag |-> with_abr[i].itag,
                 quality |-> Label(with_abr[i].abr, "kbps"), type |-> "audio"]]
        basic == IF audio_qualities = <<>> /\ audio_streams # <<>>
                 THEN <<[itag |-> audio_streams[1].itag,
                         quality |-> Label(0, "Audio Only"), type |-> "audio"]>>
                 ELSE <<>>
    IN  progressive \o adaptive \o audio_qualities \o basic

\* get_social_media_info(url) for a URL of the given platform; raised when
\* ydl.extract_info raises.  raw keeps the formats in the order scanned.
get_social_media_info(platform, formats, raised) ==
    /\ resolved' =
          IF raised
          THEN [NoResolution EXCEPT
                   !.platform = platform, !.fetched = TRUE,
                   !.error = ErrText("Could not extract video information: ", ErrMsg)]
          ELSE [platform |-> platform, fetched |-> TRUE,
                raw |-> [i \in 1..Len(formats) |->
                           [id |-> formats[i].format_id,
                            height |-> formats[i].height,
                            video |-> formats[i].vcodec # "none"]],
                quality_options |-> SocialQualityOptions(formats, platform),
                error |-> None]
    /\ UNCHANGED <<now, download_progress, threads, history, stats, popular, response,
                   video_info>>

\* json.dumps(quality_options): an array of objects, each a list of
\* (key, value) members; an int becomes a number and a str a string
JsonNumber(n) == [json |-> "number", value |-> n]

JsonString(text) == [json |-> "string", value |-> text]

JsonDumps(quality_options) ==
    [i \in 1..Len(quality_options) |->
        <<<<"itag", JsonNumber(quality_options[i].itag)>>,
          <<"quality", JsonString(quality_options[i].quality)>>,
          <<"type", JsonString(quality_options[i].type)>>>>]

\* the value of a member of a JSON object
Member(object, key) ==
    object[CHOOSE k \in 1..Len(object) : object[k][1] = key][2].value

\* json.loads(cached_video.available_qualities): a list of dicts again
JsonLoads(text) ==
    [i \in 1..Len(text) |->
        [itag |-> Member(text[i], "itag"),
         quality |-> Member(text[i], "quality"),
         type |-> Member(text[i], "type")]]

\* an access that is not counted
update_access_uncounted(cached_video) == cached_video

\* models.py lines 88-92: VideoInfo.update_access()
update_access(cached_video) == [cached_video EXCEPT !.access_count = @ + 1]

\* the outcomes of the database during one request
DbOutcomes == {"ok", "query_fails", "commit_fails"}

\* get_video_info(url) for a YouTube URL.  db tells how the database
\* behaves: the VideoInfo query of line 218 raises, or the commit of the
\* request (line 92 on a hit, line 324 on a miss) raises.  raised when
\* YouTube(url) raises.  raw keeps the streams in the order scanned.
get_video_info(progressive_streams, adaptive_video_streams, audio_streams, raised, db) ==
    /\ IF db = "query_fails"
       THEN /\ resolved' = [NoResolution EXCEPT !.platform = "youtube",
                                                !.error = ErrText("", ErrMsg)]
            /\ video_info' = video_info
       ELSE IF video_info.exists
       THEN IF db = "commit_fails"
            THEN /\ resolved' = [NoResolution EXCEPT !.platform = "youtube",
                                                     !.error = ErrText("", ErrMsg)]
                 /\ video_info' = video_info
            ELSE /\ video_info.access_count < MaxAccess
                 /\ video_info' = update_access(video_info)
                 /\ resolved' =
                       [NoResolution EXCEPT
                           !.platform = "youtube",
                           !.quality_options = JsonLoads(video_info.available_qualities)]
       ELSE IF raised
       THEN /\ resolved' =
                  [NoResolution EXCEPT
                      !.platform = "youtube", !.fetched = TRUE,
                      !.error = ErrText("Could not access YouTube video: ", ErrMsg)]
            /\ video_info' = video_info
       ELSE LET scanned == progressive_streams \o adaptive_video_streams
                quality_options ==
                    YoutubeQualityOptions(progressive_streams,
                                          adaptive_video_streams, audio_streams)
            IN  /\ video_info' =
                      IF db = "commit_fails"
                      THEN video_info
                      ELSE [exists |-> TRUE,
                            available_qualities |-> JsonDumps(quality_options),
                            access_count |-> 1]
                /\ resolved' =
                      [platform |-> "youtube", fetched |-> TRUE,
                       raw |-> [i \in 1..Len(scanned) |->
                                  [id |-> scanned[i].itag,
                                   height |-> scanned[i].resolution,
                                   video |-> TRUE]],
                       quality_options |-> quality_options,
                       error |-> None]
    /\ UNCHANGED <<now, download_progress, threads, history, stats, popular, response>>

\* ------------------------------------------------------- specification
\* the download ids a client may ask about
Handles == 0..MaxClock

AllDone == \A t \in 1..Len(threads) : Th(t).pc = "done"

\* A client that posts its next download when the last one has ended, and
\* polls and fetches at any time.
Next ==
    \/ /\ AllDone
       /\ \E url \in Urls, itag \in Itags, format_id \in FormatIds,
             elapsed \in 0..(MaxClock - now), started \in BOOLEAN :
            download_video(url, itag, format_id, elapsed, started)
    \/ \E id \in Handles : get_download_progress(id)
    \/ \E id \in Handles, on_disk \in BOOLEAN, sent \in BOOLEAN :
         download_file(id, on_disk, sent)
    \/ \E t \in 1..Len(threads) : download_thread(t)

Spec == Init /\ [][Next]_vars

\* Clients that post valid downloads at any time, also while earlier
\* downloads run.
ConcurrentNext ==
    \/ \E url \in {YoutubeUrl, InstagramUrl}, elapsed \in 0..(MaxClock - now) :
         download_video(url, "140", "hd", elapsed, TRUE)
    \/ \E t \in 1..Len(threads) : download_thread(t)

ConcurrentSpec == Init /\ [][ConcurrentNext]_vars

\* every started thread keeps being scheduled
Fairness == \A t \in 1..MaxRequests : WF_vars(t <= Len(threads) /\ download_thread(t))

FairSpec == Spec /\ Fairness

\* Clients that only ask for video information, while the insert of the
\* cache entry fails (lines 328-330), so that the backend resolves every
\* request.
ResolverNext ==
    \/ \E platform \in {"instagram", "facebook"}, formats \in RawFormatLists,
          raised \in BOOLEAN :
         get_social_media_info(platform, formats, raised)
    \/ \E progressive_streams \in StreamLists(Heights, 0),
          adaptive_video_streams \in StreamLists(Heights \cup {1080}, 10),
          audio_streams \in AudioStreamLists, raised \in BOOLEAN :
         get_video_info(progressive_streams, adaptive_video_streams,
                        audio_streams, raised, "commit_fails")

ResolverSpec == Init /\ [][ResolverNext]_vars

\* Clients that only ask for video information, with a database that may
\* work or fail; the backend offers fewer shapes of answers.
CacheNext ==
    \/ \E platform \in {"instagram", "facebook"},
          formats \in {f \in RawFormatLists : Len(f) <= 1}, raised \in BOOLEAN :
         get_social_media_info(platform, formats, raised)
    \/ \E progressive_streams \in StreamLists(Heights, 0),
          adaptive_video_streams \in StreamLists({1080}, 10),
          audio_streams \in AudioStreamLists, raised \in BOOLEAN,
          db \in DbOutcomes :
         get_video_info(progressive_streams, adaptive_video_streams,
                        audio_streams, raised, db)

CacheSpec == Init /\ [][CacheNext]_vars

\* ---------------------------------------------------------------- claims
Issued == {threads[t].download_id : t \in 1..Len(threads)}

Terminal(status) == status \in {"completed", "error"}

StatusOf(id) == ProgressInfo(download_progress, id).status

\* C1: a poll of a download_id that download_video has returned never
\* answers 'not_found', wherever the background thread stands.
C1_PollFindsIssuedHandle ==
    /\ \A id \in Issued : StatusOf(id) # "not_found"
    /\ (response.handler = "get_download_progress" /\ response.arg \in Issued)
           => response.body.status # "not_found"

\* the poll comes right after the response, before the thread has run
C1_Witness ==
    /\ response.handler = "get_download_progress"
    /\ \E t \in 1..Len(threads) :
          threads[t].download_id = response.arg /\ threads[t].pc = "L521"

\* C2: once a record is 'completed' or 'error', no step changes its status
\* or lowers its progress.
C2_TerminalIsFinal ==
    [][\A id \in DOMAIN download_progress :
          Terminal(download_progress[id].status)
              => /\ download_progress'[id].status = download_progress[id].status
                 /\ download_progress'[id].progress >= download_progress[id].progress]_vars

Rank(status) ==
    IF status = "starting" THEN 0
    ELSE IF status = "downloading" THEN 1
    ELSE IF status = "finished" THEN 2
    ELSE 3

\* C3: the status of a record only moves forward in the order starting,
\* downloading, finished, {completed, error}.
C3_StatusMovesForward ==
    [][\A id \in DOMAIN download_progress :
          Rank(download_progress'[id].status) >= Rank(download_progress[id].status)]_vars

\* C4: any two accepted requests were given different download ids.
C4_HandlesAreDistinct ==
    \A t1, t2 \in 1..Len(threads) :
        t1 # t2 => threads[t1].download_id # threads[t2].download_id

\* C5: no two running download threads write the same registry entry.
C5_OneWriterPerHandle ==
    \A t1, t2 \in 1..Len(threads) :
        (t1 # t2 /\ threads[t1].pc # "done" /\ threads[t2].pc # "done")
            => threads[t1].download_id # threads[t2].download_id

\* C6: a record has progress 100 exactly when its status is 'completed'.
C6_HundredIffCompleted ==
    \A id \in DOMAIN download_progress :
        (download_progress[id].progress = 100) <=> (download_progress[id].status = "completed")

\* C7: while a record stays 'downloading' its progress never decreases.
C7_ProgressNeverDecreases ==
    [][\A id \in DOMAIN download_progress :
          (download_progress[id].status = "downloading"
             /\ download_progress'[id].status = "downloading")
              => download_progress'[id].progress >= download_progress[id].progress]_vars

\* C8: an attempt whose backend download failed ends with its history row
\* 'failed' with a non-empty error_message and its record 'error'.
C8_FailedDownloadIsRecorded ==
    \A t \in 1..Len(threads) :
        (threads[t].pc = "done" /\ threads[t].downloaded = "failed")
            => /\ history[threads[t].rec.id].status = "failed"
               /\ history[threads[t].rec.id].error_message \notin {None, ""}
               /\ StatusOf(threads[t].download_id) = "error"

\* C9: from the moment a download is accepted (download_video answers 200 with
\* a download_id), the record of that id eventually is 'completed' or 'error',
\* provided every started download_thread keeps taking steps.
Accepted(id) ==
    /\ response.handler = "download_video"
    /\ response.code = 200
    /\ response.body.download_id = id

C9_EventuallyTerminal ==
    \A id \in Handles : Accepted(id) ~> Terminal(StatusOf(id))

\* a download failed, and so did the handler's own commit of 'failed'
C9_Witness ==
    \E t \in 1..Len(threads) :
        /\ threads[t].pc = "done"
        /\ threads[t].platform = "youtube"
        /\ threads[t].downloaded = "failed"
        /\ history[threads[t].rec.id].status # "failed"
        /\ StatusOf(threads[t].download_id) = "error"

\* C10: an attempt whose backend download succeeded ends with its record
\* 'completed', whatever the database does afterwards.
C10_DatabaseFailureKeepsCompleted ==
    \A t \in 1..Len(threads) :
        (threads[t].pc = "done" /\ threads[t].downloaded = "yes")
            => StatusOf(threads[t].download_id) = "completed"

\* C11: when two downloads with different ids have both ended 'completed'
\* (registry and history row), today's total_downloads has grown by 2.
BothCompleted ==
    /\ Len(threads) = 2
    /\ AllDone
    /\ threads[1].download_id # threads[2].download_id
    /\ \A t \in 1..2 :
          /\ StatusOf(threads[t].download_id) = "completed"
          /\ threads[t].rec.persistent
          /\ history[threads[t].rec.id].status = "completed"

C11_TwoCompletionsCountTwice == BothCompleted => stats.total = 2

\* C12: download_file answers 200 with a file only when the record of the
\* id is 'completed'; for an unknown id or any other status it answers the
\* 404 "Download not completed or not found".
C12_FileOnlyWhenCompleted ==
    response.handler = "download_file"
        => /\ response.code = 200 => StatusOf(response.arg) = "completed"
           /\ StatusOf(response.arg) # "completed"
                 => /\ response.code = 404
                    /\ response.body = [error |-> "Download not completed or not found"]

\* the file is asked for while the YouTube download has already recorded
\* its filepath but the record is not 'completed'
C12_Witness ==
    /\ response.handler = "download_file"
    /\ response.code = 404
    /\ response.arg \in DOMAIN download_progress
    /\ "filepath" \in DOMAIN download_progress[response.arg]
    /\ download_progress[response.arg].status \in {"downloading", "error"}

\* C13: a POST /download without a URL, without a selector, or with a URL of
\* no supported platform is answered 400, and that step changes neither the
\* registry nor the threads (no id is allocated, nothing is started).
Rejectable(url, itag, format_id) ==
    url \in {"", OtherUrl} \/ (itag = None /\ format_id = None)

C13_InvalidRequestRejected ==
    [][response'.handler = "download_video"
          => /\ \A url \in Urls, itag \in Itags, format_id \in FormatIds :
                   (Rejectable(url, itag, format_id)
                       /\ download_video(url, itag, format_id, 0, TRUE))
                      => response'.code = 400
             /\ response'.code = 400
                   => UNCHANGED <<download_progress, threads, now>>]_vars

\* an unsupported URL is refused while an earlier download is registered
C13_Witness ==
    /\ response.handler = "download_video"
    /\ response.code = 400
    /\ response.body = [error |-> "Invalid video URL"]
    /\ Len(threads) = 1
    /\ DOMAIN download_progress # {}

\* C14: get_download_progress answers 200 with the record of the id as it is
\* now, or with status 'not_found' when the id is not registered, and leaves
\* the registry as it was (an unknown id gets no entry).
C14_PollReadsOnly ==
    [][response'.handler = "get_download_progress"
          => /\ download_progress' = download_progress
             /\ response'.code = 200
             /\ response'.body =
                   IF response'.arg \in DOMAIN download_progress
                   THEN download_progress[response'.arg]
                   ELSE [status |-> "not_found"]]_vars

\* an id that was never issued is polled while another one is registered
C14_Witness ==
    /\ response.handler = "get_download_progress"
    /\ response.body = [status |-> "not_found"]
    /\ response.arg \notin DOMAIN download_progress
    /\ DOMAIN download_progress # {}

DownloadsOf(id) ==
    {t \in 1..Len(threads) :
        threads[t].download_id = id /\ threads[t].downloaded # "no"}

C16_DownloadInvokedOncePerHandle ==
    \A id \in Handles : Cardinality(DownloadsOf(id)) <= 1

\* C17: no step removes a key from download_progress.
C17_RegistryOnlyGrows ==
    [][DOMAIN download_progress \subseteq DOMAIN download_progress']_vars

\* two ids are registered and the file of one has just been fetched
C17_Witness ==
    /\ response.handler = "download_file"
    /\ response.code = 200
    /\ Cardinality(DOMAIN download_progress) = 2

\* C18: the resolved options hold at most one video entry per resolution, and
\* the entry kept for a resolution is the first raw entry of that resolution
\* in the order scanned (for YouTube: progressive streams, then adaptive).
OptionId(option) ==
    IF "itag" \in DOMAIN option THEN option.itag ELSE option.format_id

VideoOptions ==
    {i \in 1..Len(resolved.quality_options) :
        resolved.quality_options[i].type # "audio"}

FirstRaw(height) ==
    CHOOSE i \in 1..Len(resolved.raw) :
        /\ resolved.raw[i].video /\ resolved.raw[i].height = height
        /\ \A j \in 1..(i - 1) :
              ~(resolved.raw[j].video /\ resolved.raw[j].height = height)

C18_OneOptionPerResolution ==
    LET q == resolved.quality_options
    IN  /\ \A i, j \in VideoOptions :
              q[i].quality.number = q[j].quality.number => i = j
        /\ \A i \in VideoOptions :
              /\ \E k \in 1..Len(resolved.raw) :
                    resolved.raw[k].video
                        /\ resolved.raw[k].height = q[i].quality.number
              /\ OptionId(q[i]) = resolved.raw[FirstRaw(q[i].quality.number)].id
        /\ \A k \in 1..Len(resolved.raw) :
              (resolved.raw[k].video /\ resolved.raw[k].height # 0)
                 => \E i \in VideoOptions :
                       q[i].quality.number = resolved.raw[k].height

\* a YouTube resolution where a progressive and an adaptive stream share a
\* resolution, and a social one where two formats share a height
C18_Witness ==
    /\ resolved.error = None
    /\ \E j, k \in 1..Len(resolved.raw) :
          /\ j < k
          /\ resolved.raw[j].video /\ resolved.raw[k].video
          /\ resolved.raw[j].height = resolved.raw[k].height
          /\ resolved.raw[j].height # 0
    /\ Len(resolved.quality_options) >= 2

\* C19: in the resolved options no video entry of a lower resolution stands
\* before one of a higher resolution, and every audio entry stands after
\* every video entry.
C19_OptionsSortedDescending ==
    LET q == resolved.quality_options
    IN  \A i, j \in 1..Len(q) :
            i < j
               => /\ (i \in VideoOptions /\ j \in VideoOptions)
                        => q[i].quality.number >= q[j].quality.number
                  /\ i \notin VideoOptions => j \notin VideoOptions

\* C20: while a thread that found the selected format unavailable is about
\* to write 'error' (or has just written it), the record of its download
\* id is not and has not been 'downloading', no backend download has been
\* made for that id and no DownloadHistory row has been created for it.
FormatUnavailable(t) == threads[t].pc \in {"L534", "L535", "L577", "L578"}

C20_UnavailableFormatStraightToError ==
    \A t \in 1..Len(threads) :
        FormatUnavailable(t)
           => LET id == threads[t].download_id
              IN  /\ StatusOf(id) \in {"starting", "error"}
                  /\ "record_id" \notin DOMAIN download_progress[id]
                  /\ ~threads[t].rec.exists
                  /\ DownloadsOf(id) = {}

\* C21: while the record of a running attempt is 'downloading', the
\* attempt's DownloadHistory row is committed with status 'downloading'.
C21_HistoryDownloadingBeforeDownload ==
    \A t \in 1..Len(threads) :
        (threads[t].pc # "done" /\ StatusOf(threads[t].download_id) = "downloading")
            => /\ threads[t].rec.persistent
               /\ history[threads[t].rec.id].status = "downloading"

\* C22: an attempt whose first commit of its DownloadHistory failed has
\* still invoked the backend download by the time it ends.
InsertFailed(t) == threads[t].rec.exists /\ ~threads[t].rec.persistent

C22_InsertFailureIsNotFatal ==
    \A t \in 1..Len(threads) :
        (threads[t].pc = "done" /\ InsertFailed(t))
            => threads[t].downloaded # "no"

\* C23: when all attempts have ended, every attempt whose backend download
\* succeeded has its record 'completed' with progress 100 and its history
\* row 'completed' with a completion time, and today's total_downloads, in
\* a row that exists, counts exactly those attempts.
Succeeded == {t \in 1..Len(threads) : threads[t].downloaded = "yes"}

C23_SuccessUpsertsDailyStats ==
    AllDone
       => /\ \A t \in Succeeded :
                /\ StatusOf(threads[t].download_id) = "completed"
                /\ download_progress[threads[t].download_id].progress = 100
                /\ history[threads[t].rec.id].status = "completed"
                /\ history[threads[t].rec.id].completed_at
          /\ stats.total = Cardinality(Succeeded)
          /\ Succeeded # {} => stats.exists

\* C24: when all attempts have ended, the committed download_count of the
\* YouTube video equals the number of YouTube attempts whose record ended
\* 'completed'.
CompletedYoutube ==
    {t \in 1..Len(threads) : /\ threads[t].platform = "youtube"
                             /\ StatusOf(threads[t].download_id) = "completed"}

C24_PopularCountsCompletedAttempts ==
    AllDone => popular = Cardinality(CompletedYoutube)

\* C25: when download_video answers with the download_id, a DownloadHistory
\* row of the accepted attempt is already committed.
C25_HistoryExistsAtResponse ==
    (response.handler = "download_video" /\ response.code = 200)
        => threads[Len(threads)].rec.persistent

\* C26: every attempt that has ended has its own committed DownloadHistory
\* row, and there are no more rows than attempts.
C26_OneHistoryRowPerAttempt ==
    /\ Len(history) <= Len(threads)
    /\ \A t \in 1..Len(threads) :
           threads[t].pc = "done" => threads[t].rec.persistent

C28_CompletedHasFile ==
    \A id \in DOMAIN download_progress :
        download_progress[id].status = "completed"
            => /\ "filepath" \in DOMAIN download_progress[id]
               /\ "filename" \in DOMAIN download_progress[id]

\* C29: whenever a record is 'completed', a thread of that download_id has
\* its DownloadHistory row committed as 'completed' with a completion time
\* and holds no uncommitted DownloadStats change, and today's row counts at
\* least one download.
C29_PersistedBeforeCompleted ==
    \A id \in DOMAIN download_progress :
        download_progress[id].status = "completed"
            => /\ \E t \in 1..Len(threads) :
                     /\ threads[t].download_id = id
                     /\ threads[t].rec.persistent
                     /\ history[threads[t].rec.id].status = "completed"
                     /\ history[threads[t].rec.id].completed_at
                     /\ ~threads[t].statsObj.loaded
               /\ stats.exists /\ stats.total >= 1

\* the record has just been set to 'completed' at line 675
C29_Witness ==
    \E t \in 1..Len(threads) :
        /\ threads[t].pc = "L676"
        /\ StatusOf(threads[t].download_id) = "completed"

\* C30: a committed DownloadHistory row has a completion time only if its
\* status is 'completed'.
C30_CompletionTimeOnlyWhenCompleted ==
    \A i \in 1..Len(history) :
        history[i].completed_at => history[i].status = "completed"

\* C31: in the committed DownloadStats row of today, total_downloads equals
\* video_downloads + audio_downloads.
C31_TotalIsVideoPlusAudio ==
    stats.total = stats.video + stats.audio

====
